---- MODULE Spec2Model ----
(***************************************************************************)
(* LBK points-transfer backend (Fiber + GORM + SQLite).                    *)
(*                                                                         *)
(* The store is the SQLite database behind the global handle `db`: the     *)
(* table of users and the table of transactions.  Every HTTP request runs  *)
(* in its own goroutine; the requests share the store only.  A step of the *)
(* model is one access to the store together with the local computation    *)
(* that follows it up to the next access.                                  *)
(*                                                                         *)
(* Store semantics (SQLite through database/sql):                          *)
(*   - a read made through `db` returns committed rows only;               *)
(*   - the first write of a transaction takes the single write lock, which *)
(*     is held until COMMIT or ROLLBACK; writes of the transaction are     *)
(*     private until COMMIT, which publishes them all at once;             *)
(*   - any statement may fail (busy database, I/O error).                  *)
(***************************************************************************)
EXTENDS Integers, Sequences, FiniteSets, TLC

\* ------------------------------------------------------------------ bounds

\* Cap on the number of committed ledger rows at which new transfers start.
MaxTx == 2

\* Cap on the ledger rows of the sequential history runs: one more than the
\* history limit, so that a row is cut off.
MaxHistory == 11

\* -------------------------------------------------------- program constants

\* registerHandler: Points: 15420
DefaultPoints == 15420

\* recentTransactionsHandler: Limit(10)
HistoryLimit == 10

\* --------------------------------------------------------------- input sets

\* Request goroutines that may run concurrently.
Procs == {1, 2}

\* Registration payloads (email, member_id, first and last name) that clients
\* send.
RegPayloads ==
  { [Email |-> "a@x", MemberID |-> "LBK1", FirstName |-> "Ann", LastName |-> "A"],
    [Email |-> "b@x", MemberID |-> "LBK2", FirstName |-> "Bob", LastName |-> "B"],
    [Email |-> "a@x", MemberID |-> "LBK2", FirstName |-> "Ann", LastName |-> "A"],
    [Email |-> "",    MemberID |-> "LBK3", FirstName |-> "Cy",  LastName |-> "C"] }

\* Login payloads: an email and whether the password matches the hash stored
\* for it.
LoginPayloads ==
  { [Email |-> "a@x", passwordOK |-> TRUE],
    [Email |-> "b@x", passwordOK |-> TRUE],
    [Email |-> "a@x", passwordOK |-> FALSE] }

\* to_member_id values of transfer payloads and member_id search queries.
MemberIDs == {"", "LBK1", "LBK2", "LBK9"}

\* amount values of transfer payloads.
Amounts == {0, 1, DefaultPoints}

\* Transfer payloads: parsed bodies, and one body that BodyParser rejects.
TransferPayloads ==
  [ToMemberID : MemberIDs, Amount : Amounts, parsed : {TRUE}]
    \cup { [ToMemberID |-> "", Amount |-> 0, parsed |-> FALSE] }

\* Authorization headers: none, one that is not "Bearer <token>", a token
\* that does not verify, or a valid token whose subject is the given user id.
Tokens ==
  { [header |-> "none", sub |-> 0], [header |-> "malformed", sub |-> 0],
    [header |-> "bad", sub |-> 0] }
    \cup { [header |-> "ok", sub |-> i] : i \in 1 .. 3 }

\* ------------------------------------------------------------------- state

VARIABLES
  users,         \* table users: sequence of User rows, ID = position
  transactions,  \* table transactions: sequence of Transaction rows
  lock,          \* holder of the SQLite write lock, 0 when free
  pc,            \* per goroutine: position in its handler
  payload,       \* per goroutine: parsed request body / query
  fromUser,      \* per goroutine: c.Locals("user"), the caller as loaded
  toUser,        \* per goroutine: the recipient as loaded
  tx,            \* per goroutine: the open transaction's private writes
  resp           \* the response the step just taken sent, NoResp if none

vars ==
  <<users, transactions, lock, pc, payload, fromUser, toUser, tx, resp>>

\* The zero User value of Go.
NoUser ==
  [ID |-> 0, Email |-> "", FirstName |-> "", LastName |-> "", MemberID |-> "",
   MemberTier |-> "", Points |-> 0]

NoPayload == [ToMemberID |-> "", Amount |-> 0, parsed |-> FALSE]

\* No transaction open: no private balance write, no private ledger row.
NoTx == [points |-> <<>>, created |-> <<>>]

NoResp == [status |-> 0]

\* ----------------------------------------------------------- store queries

\* db.First(&user, id): the row with that primary key, or NoUser.
FirstByID(id) ==
  IF id \in 1 .. Len(users) THEN users[id] ELSE NoUser

\* db.Where("member_id = ?", m).First(&u): the row or NoUser.
FirstByMemberID(m) ==
  IF \E i \in 1 .. Len(users) : users[i].MemberID = m
    THEN users[CHOOSE i \in 1 .. Len(users) : users[i].MemberID = m]
    ELSE NoUser

\* db.Where("email = ?", e).First(&u): the row or NoUser.
FirstByEmail(e) ==
  IF \E i \in 1 .. Len(users) : users[i].Email = e
    THEN users[CHOOSE i \in 1 .. Len(users) : users[i].Email = e]
    ELSE NoUser

\* --------------------------------------------------------------- responses

Error(status, msg) == [status |-> status, error |-> msg]

\* ------------------------------------------------------------------- Init

Init ==
  /\ users = <<>>
  /\ transactions = <<>>
  /\ lock = 0
  /\ pc = [p \in Procs |-> "idle"]
  /\ payload = [p \in Procs |-> NoPayload]
  /\ fromUser = [p \in Procs |-> NoUser]
  /\ toUser = [p \in Procs |-> NoUser]
  /\ tx = [p \in Procs |-> NoTx]
  /\ resp = NoResp

\* The request of p is answered with response r and its goroutine ends: its
\* locals are gone, and p is free to serve the next request.
Reply(p, r) ==
  /\ resp' = r
  /\ pc' = [pc EXCEPT ![p] = "idle"]
  /\ payload' = [payload EXCEPT ![p] = NoPayload]
  /\ fromUser' = [fromUser EXCEPT ![p] = NoUser]
  /\ toUser' = [toUser EXCEPT ![p] = NoUser]

\* The handler of p goes on to position at with its locals set.
Goto(p, at, body, from, to) ==
  /\ pc' = [pc EXCEPT ![p] = at]
  /\ payload' = [payload EXCEPT ![p] = body]
  /\ fromUser' = [fromUser EXCEPT ![p] = from]
  /\ toUser' = [toUser EXCEPT ![p] = to]
  /\ resp' = NoResp

\* ---------------------------------------------------------- jwtMiddleware

\* Faulty variant of AuthError: a valid token is let through without
\* loading its user.
AuthErrorTokenOnly(tok) ==
  IF tok.header = "none" THEN Error(401, "missing authorization header")
  ELSE IF tok.header = "malformed"
    THEN Error(401, "invalid authorization header")
  ELSE IF tok.header = "bad" THEN Error(401, "invalid token")
  ELSE NoResp

\* The outcome of the middleware for header tok: the 401 response, or
\* NoResp when the user was loaded and c.Next() runs.
AuthError(tok) ==
  IF tok.header = "none" THEN Error(401, "missing authorization header")
  ELSE IF tok.header = "malformed"
    THEN Error(401, "invalid authorization header")
  ELSE IF tok.header = "bad" THEN Error(401, "invalid token")
  ELSE IF FirstByID(tok.sub) = NoUser THEN Error(401, "user not found")
  ELSE NoResp

\* ------------------------------------------------------------ registration

\* POST /register: registerHandler up to the email lookup.
Register(p, body) ==
  /\ pc[p] = "idle"
  /\ IF body.Email = "" \/ body.MemberID = ""
       THEN Reply(p, Error(400, "email, password and member_id required"))
       ELSE IF FirstByEmail(body.Email) # NoUser
         THEN Reply(p, Error(400, "email already registered"))
         ELSE Goto(p, "reg_member", body, NoUser, NoUser)
  /\ UNCHANGED <<users, transactions, lock, tx>>

\* registerHandler: the member_id lookup.
RegisterCheckMember(p) ==
  /\ pc[p] = "reg_member"
  /\ IF FirstByMemberID(payload[p].MemberID) # NoUser
       THEN Reply(p, Error(400, "member_id already registered"))
       ELSE Goto(p, "reg_create", payload[p], NoUser, NoUser)
  /\ UNCHANGED <<users, transactions, lock, tx>>

\* Faulty variant of NewUser: the account starts with no points.
NewUserZeroPoints(body) ==
  [ID |-> Len(users) + 1, Email |-> body.Email,
   FirstName |-> body.FirstName, LastName |-> body.LastName,
   MemberID |-> body.MemberID, MemberTier |-> "Gold", Points |-> 0]

\* The row registerHandler builds; the insert assigns the next primary key.
NewUser(body) ==
  [ID |-> Len(users) + 1, Email |-> body.Email,
   FirstName |-> body.FirstName, LastName |-> body.LastName,
   MemberID |-> body.MemberID, MemberTier |-> "Gold", Points |-> DefaultPoints]

\* registerHandler: db.Create(&user).  The unique indexes on email and
\* member_id reject a duplicate; the insert needs the write lock; any failure
\* is answered 500.
RegisterCreate(p) ==
  /\ pc[p] = "reg_create"
  /\ \/ /\ lock = 0
        /\ FirstByEmail(payload[p].Email) = NoUser
        /\ FirstByMemberID(payload[p].MemberID) = NoUser
        /\ users' = Append(users, NewUser(payload[p]))
        /\ Reply(p, [status |-> 201, id |-> Len(users) + 1,
                     email |-> payload[p].Email,
                     member_id |-> payload[p].MemberID])
     \/ /\ Reply(p, Error(500, "failed to create user"))
        /\ UNCHANGED users
  /\ UNCHANGED <<transactions, lock, tx>>

\* ------------------------------------------------------------------- login

\* POST /login: loginHandler; the token it answers is the header a later
\* request presents.
Login(p, body) ==
  /\ pc[p] = "idle"
  /\ IF FirstByEmail(body.Email) = NoUser \/ ~body.passwordOK
       THEN Reply(p, Error(401, "invalid credentials"))
       ELSE Reply(p, [status |-> 200,
                      token |-> [header |-> "ok",
                                 sub |-> FirstByEmail(body.Email).ID]])
  /\ UNCHANGED <<users, transactions, lock, tx>>

\* ---------------------------------------------------------------- transfer

\* Faulty variant of TransferChecks: the funds check is made before the
\* self-transfer check.
TransferChecksFundsFirst(user, body) ==
  IF ~body.parsed
    THEN Error(400, "invalid payload")
  ELSE IF body.ToMemberID = "" \/ body.Amount <= 0
    THEN Error(400, "to_member_id and positive amount required")
  ELSE IF user.Points < body.Amount
    THEN Error(400, "insufficient points")
  ELSE IF body.ToMemberID = user.MemberID
    THEN Error(400, "cannot transfer to yourself")
  ELSE NoResp

\* Faulty variant of TransferChecks: the self-transfer check is made before
\* the shape check.
TransferChecksSelfFirst(user, body) ==
  IF ~body.parsed
    THEN Error(400, "invalid payload")
  ELSE IF body.ToMemberID = user.MemberID
    THEN Error(400, "cannot transfer to yourself")
  ELSE IF body.ToMemberID = "" \/ body.Amount <= 0
    THEN Error(400, "to_member_id and positive amount required")
  ELSE IF user.Points < body.Amount
    THEN Error(400, "insufficient points")
  ELSE NoResp

\* Faulty variant of TransferChecks: the self-transfer check is missing.
TransferChecksNoSelf(user, body) ==
  IF ~body.parsed
    THEN Error(400, "invalid payload")
  ELSE IF body.ToMemberID = "" \/ body.Amount <= 0
    THEN Error(400, "to_member_id and positive amount required")
  ELSE IF user.Points < body.Amount
    THEN Error(400, "insufficient points")
  ELSE NoResp

\* Faulty variant of TransferChecks: the funds check is missing.
TransferChecksNoFunds(user, body) ==
  IF ~body.parsed
    THEN Error(400, "invalid payload")
  ELSE IF body.ToMemberID = "" \/ body.Amount <= 0
    THEN Error(400, "to_member_id and positive amount required")
  ELSE IF body.ToMemberID = user.MemberID
    THEN Error(400, "cannot transfer to yourself")
  ELSE NoResp

\* transferHandler, the checks made on the request and on the caller as the
\* middleware loaded it: the error response, or NoResp when all pass.
TransferChecks(user, body) ==
  IF ~body.parsed
    THEN Error(400, "invalid payload")
  ELSE IF body.ToMemberID = "" \/ body.Amount <= 0
    THEN Error(400, "to_member_id and positive amount required")
  ELSE IF body.ToMemberID = user.MemberID
    THEN Error(400, "cannot transfer to yourself")
  ELSE IF user.Points < body.Amount
    THEN Error(400, "insufficient points")
  ELSE NoResp

\* jwtMiddleware: a request to a protected route arrives at p with header
\* tok; the middleware answers 401 or loads the caller and calls the route's
\* handler.  (A query that fails is answered like a user that is not found.)
Authenticate(p, tok) ==
  /\ pc[p] = "idle"
  /\ IF AuthError(tok) # NoResp
       THEN Reply(p, AuthError(tok))
       ELSE Goto(p, "handler", NoPayload, FirstByID(tok.sub), NoUser)
  /\ UNCHANGED <<users, transactions, lock, tx>>

\* The positions of transferHandler inside its transaction.
InUnit == {"begun", "debited", "credited", "recorded"}

\* Transfers on their way to the ledger.
InFlight == {q \in Procs : pc[q] \in {"lookup"} \cup InUnit}

\* POST /transfer: transferHandler up to the recipient lookup.
TransferRequest(p, body) ==
  /\ pc[p] = "handler"
  /\ IF TransferChecks(fromUser[p], body) # NoResp
       THEN Reply(p, TransferChecks(fromUser[p], body))
       ELSE Goto(p, "lookup", body, fromUser[p], NoUser)
  /\ UNCHANGED <<users, transactions, lock, tx>>

\* Faulty variant of TransferLookup: a recipient that is not found is
\* answered as a failed transfer.
TransferLookupWrongKind(p, dbOK) ==
  LET found == IF dbOK THEN FirstByMemberID(payload[p].ToMemberID) ELSE NoUser
  IN /\ pc[p] = "lookup"
     /\ IF found = NoUser
          THEN Reply(p, Error(500, "failed to complete transfer"))
          ELSE Goto(p, "begun", payload[p], fromUser[p], found)
     /\ UNCHANGED <<users, transactions, lock, tx>>

\* transferHandler: find the recipient by member ID; any error of the query is
\* answered as "recipient not found".
TransferLookup(p, dbOK) ==
  LET found == IF dbOK THEN FirstByMemberID(payload[p].ToMemberID) ELSE NoUser
  IN /\ pc[p] = "lookup"
     /\ IF found = NoUser
          THEN Reply(p, Error(404, "recipient not found"))
          ELSE Goto(p, "begun", payload[p], fromUser[p], found)
     /\ UNCHANGED <<users, transactions, lock, tx>>

\* tx.Model(&u).Update("points", v): the write stays private to the
\* transaction of p.
StagePoints(p, id, v) ==
  [tx EXCEPT ![p].points = Append(@, [ID |-> id, Points |-> v])]

\* Faulty variant of TransferDebit: the update goes through db instead of
\* tx, so it is committed on its own.
TransferDebitAutocommit(p) ==
  LET v == fromUser[p].Points - payload[p].Amount
  IN /\ pc[p] = "begun"
     /\ lock = 0
     /\ lock' = p
     /\ users' = [users EXCEPT ![fromUser[p].ID].Points = v]
     /\ tx' = StagePoints(p, fromUser[p].ID, v)
     /\ fromUser' = [fromUser EXCEPT ![p].Points = v]
     /\ pc' = [pc EXCEPT ![p] = "debited"]
     /\ resp' = NoResp
     /\ UNCHANGED <<transactions, payload, toUser>>

\* transferHandler: db.Begin() and the sender's update, which takes the write
\* lock.  GORM also assigns the new value to the model it was given.
TransferDebit(p) ==
  LET v == fromUser[p].Points - payload[p].Amount
  IN /\ pc[p] = "begun"
     /\ lock = 0
     /\ lock' = p
     /\ tx' = StagePoints(p, fromUser[p].ID, v)
     /\ fromUser' = [fromUser EXCEPT ![p].Points = v]
     /\ pc' = [pc EXCEPT ![p] = "debited"]
     /\ resp' = NoResp
     /\ UNCHANGED <<users, transactions, payload, toUser>>

\* transferHandler: the recipient's update.
TransferCredit(p) ==
  LET v == toUser[p].Points + payload[p].Amount
  IN /\ pc[p] = "debited"
     /\ tx' = StagePoints(p, toUser[p].ID, v)
     /\ toUser' = [toUser EXCEPT ![p].Points = v]
     /\ pc' = [pc EXCEPT ![p] = "credited"]
     /\ resp' = NoResp
     /\ UNCHANGED <<users, transactions, lock, payload, fromUser>>

\* The Transaction row transferHandler builds; the insert assigns the next
\* primary key and GORM stamps CreatedAt with the current time t.
NewTransaction(p, t) ==
  [ID |-> Len(transactions) + 1,
   FromUserID |-> fromUser[p].ID,
   ToUserID |-> toUser[p].ID,
   Amount |-> payload[p].Amount,
   Type |-> "transfer",
   Status |-> "completed",
   CreatedAt |-> t]

\* The time of the newest committed ledger row, 0 when there is none.
LastCreatedAt ==
  IF transactions = <<>> THEN 0 ELSE transactions[Len(transactions)].CreatedAt

\* What time.Now() may return, in ticks of the stored resolution: the clock
\* does not run backwards, and only the order of the stamps matters, so it
\* reads the tick of the newest row or the next one.
Clock == {LastCreatedAt, LastCreatedAt + 1}

\* transferHandler: tx.Create(&transaction) at time t.
TransferCreate(p, t) ==
  /\ pc[p] = "credited"
  /\ t \in Clock
  /\ tx' = [tx EXCEPT ![p].created = Append(@, NewTransaction(p, t))]
  /\ pc' = [pc EXCEPT ![p] = "recorded"]
  /\ resp' = NoResp
  /\ UNCHANGED <<users, transactions, lock, payload, fromUser, toUser>>

\* The users table after the balance writes ws, applied in order.
RECURSIVE ApplyPoints(_, _)
ApplyPoints(us, ws) ==
  IF ws = <<>> THEN us
  ELSE ApplyPoints([us EXCEPT ![Head(ws).ID].Points = Head(ws).Points], Tail(ws))

\* The success response of transferHandler.
TransferOK(p) ==
  [status |-> 200,
   message |-> "Transfer successful",
   transaction_id |-> tx[p].created[1].ID,
   remaining_points |-> fromUser[p].Points - payload[p].Amount,
   transferred_amount |-> payload[p].Amount,
   recipient |-> toUser[p].MemberID]

\* transferHandler: tx.Commit() succeeds; the private writes become the
\* committed state at once and the lock is released.
TransferCommit(p) ==
  /\ pc[p] = "recorded"
  /\ users' = ApplyPoints(users, tx[p].points)
  /\ transactions' = transactions \o tx[p].created
  /\ lock' = 0
  /\ tx' = [tx EXCEPT ![p] = NoTx]
  /\ Reply(p, TransferOK(p))

\* Faulty variant of Rollback: the transaction is left open.
RollbackLeaky(p) ==
  /\ tx' = tx
  /\ lock' = lock

\* tx.Rollback() (or the driver's rollback after a failed COMMIT): the
\* private writes are dropped and the lock, if p holds it, is released.
Rollback(p) ==
  /\ tx' = [tx EXCEPT ![p] = NoTx]
  /\ lock' = IF lock = p THEN 0 ELSE lock

\* The error message transferHandler answers when the statement at pc fails.
FailureMessage(at) ==
  CASE at = "begun" -> "failed to deduct points"
    [] at = "debited" -> "failed to add points"
    [] at = "credited" -> "failed to create transaction record"
    [] at = "recorded" -> "failed to complete transfer"

\* Faulty variant of TransferFail: the balance updates made so far stay in
\* the store.
TransferFailKeepsWrites(p) ==
  /\ pc[p] \in InUnit
  /\ Rollback(p)
  /\ Reply(p, Error(500, FailureMessage(pc[p])))
  /\ users' = ApplyPoints(users, tx[p].points)
  /\ UNCHANGED transactions

\* transferHandler: the statement p is about to run fails (busy database,
\* I/O error): roll back and answer 500.
TransferFail(p) ==
  /\ pc[p] \in InUnit
  /\ Rollback(p)
  /\ Reply(p, Error(500, FailureMessage(pc[p])))
  /\ UNCHANGED <<users, transactions>>

\* transferHandler: a panic inside the unit is recovered by the deferred
\* function, which rolls back; the handler then returns nil and Fiber sends
\* its default response, 200 with an empty body.
TransferPanic(p) ==
  /\ pc[p] \in InUnit
  /\ Rollback(p)
  /\ Reply(p, [status |-> 200, body |-> ""])
  /\ UNCHANGED <<users, transactions>>

\* ------------------------------------------------------------ read routes

\* GET /me: meHandler answers the caller as the middleware loaded it.
Me(p) ==
  /\ pc[p] = "handler"
  /\ Reply(p, [status |-> 200,
               id |-> fromUser[p].ID,
               email |-> fromUser[p].Email,
               first_name |-> fromUser[p].FirstName,
               last_name |-> fromUser[p].LastName,
               member_id |-> fromUser[p].MemberID,
               member_tier |-> fromUser[p].MemberTier,
               points |-> fromUser[p].Points])
  /\ UNCHANGED <<users, transactions, lock, tx>>

\* The committed ledger rows that touch user id.
Touching(id) ==
  { transactions[i] : i \in { j \in 1 .. Len(transactions) :
      transactions[j].FromUserID = id \/ transactions[j].ToUserID = id } }

\* Every way to list the rows S by created_at DESC: rows with equal stamps
\* come in an order the query does not fix.
RECURSIVE Orders(_)
Orders(S) ==
  IF S = {} THEN {<<>>}
  ELSE UNION { { <<r>> \o o : o \in Orders(S \ {r}) } :
               r \in { r \in S : \A q \in S : q.CreatedAt <= r.CreatedAt } }

\* The first n elements of sequence s.
FirstN(s, n) == SubSeq(s, 1, IF Len(s) < n THEN Len(s) ELSE n)

\* The results the query of recentTransactionsHandler may return for user id:
\* Where(from_user_id = id OR to_user_id = id).Order(created_at DESC).Limit(10).
RecentRows(id) == { FirstN(o, HistoryLimit) : o \in Orders(Touching(id)) }

\* Faulty variant of FormatTx: the amount of a sent row is not negated.
FormatTxUnsigned(t, id) ==
  IF t.FromUserID = id
    THEN [id |-> t.ID,
          contact_name |-> <<FirstByID(t.ToUserID).FirstName,
                             FirstByID(t.ToUserID).LastName>>,
          contact_member_id |-> FirstByID(t.ToUserID).MemberID,
          amount |-> t.Amount,
          type |-> "sent",
          status |-> t.Status]
    ELSE [id |-> t.ID,
          contact_name |-> <<FirstByID(t.FromUserID).FirstName,
                             FirstByID(t.FromUserID).LastName>>,
          contact_member_id |-> FirstByID(t.FromUserID).MemberID,
          amount |-> t.Amount,
          type |-> "received",
          status |-> t.Status]

\* recentTransactionsHandler: the entry for row t in the history of user id;
\* the counterparty is the preloaded ToUser or FromUser, its name the pair of
\* first and last name that the handler joins with a space.
FormatTx(t, id) ==
  IF t.FromUserID = id
    THEN [id |-> t.ID,
          contact_name |-> <<FirstByID(t.ToUserID).FirstName,
                             FirstByID(t.ToUserID).LastName>>,
          contact_member_id |-> FirstByID(t.ToUserID).MemberID,
          amount |-> 0 - t.Amount,
          type |-> "sent",
          status |-> t.Status]
    ELSE [id |-> t.ID,
          contact_name |-> <<FirstByID(t.FromUserID).FirstName,
                             FirstByID(t.FromUserID).LastName>>,
          contact_member_id |-> FirstByID(t.FromUserID).MemberID,
          amount |-> t.Amount,
          type |-> "received",
          status |-> t.Status]

\* GET /transactions/recent: recentTransactionsHandler; rows is what the
\* query returned (dbOK: it did not fail).  The empty list stands for the
\* JSON null that the handler's nil slice is encoded as.
RecentTransactions(p, rows, dbOK) ==
  /\ pc[p] = "handler"
  /\ rows \in RecentRows(fromUser[p].ID)
  /\ IF dbOK
       THEN Reply(p, [status |-> 200,
                      transactions |-> [i \in 1 .. Len(rows) |->
                                          FormatTx(rows[i], fromUser[p].ID)]])
       ELSE Reply(p, Error(500, "failed to fetch transactions"))
  /\ UNCHANGED <<users, transactions, lock, tx>>

\* Faulty variant of SearchUser: the found account is answered whole.
SearchUserWholeAccount(p, m) ==
  LET found == FirstByMemberID(m)
  IN /\ pc[p] = "handler"
     /\ IF m = ""
          THEN Reply(p, Error(400, "member_id query parameter required"))
        ELSE IF m = fromUser[p].MemberID
          THEN Reply(p, Error(400, "cannot search for yourself"))
        ELSE IF found = NoUser
          THEN Reply(p, Error(404, "user not found"))
        ELSE Reply(p, [status |-> 200,
                       id |-> found.ID,
                       email |-> found.Email,
                       member_id |-> found.MemberID,
                       first_name |-> found.FirstName,
                       last_name |-> found.LastName,
                       member_tier |-> found.MemberTier,
                       points |-> found.Points])
     /\ UNCHANGED <<users, transactions, lock, tx>>

\* GET /search/user?member_id=m: searchUserHandler.  (A query that fails is
\* answered like a member that is not found.)
SearchUser(p, m) ==
  LET found == FirstByMemberID(m)
  IN /\ pc[p] = "handler"
     /\ IF m = ""
          THEN Reply(p, Error(400, "member_id query parameter required"))
        ELSE IF m = fromUser[p].MemberID
          THEN Reply(p, Error(400, "cannot search for yourself"))
        ELSE IF found = NoUser
          THEN Reply(p, Error(404, "user not found"))
        ELSE Reply(p, [status |-> 200,
                       member_id |-> found.MemberID,
                       first_name |-> found.FirstName,
                       last_name |-> found.LastName,
                       member_tier |-> found.MemberTier])
     /\ UNCHANGED <<users, transactions, lock, tx>>

\* --------------------------------------------------------- failure kinds

\* The failure kind each response of /transfer stands for: the middleware's
\* 401s are Unauthenticated, the handler's 400s and 404 the precondition
\* failures, its 500s TransferFailed.
Kind(r) ==
  IF r.status = 401 THEN "Unauthenticated"
  ELSE IF r = Error(400, "invalid payload") THEN "InvalidRequest"
  ELSE IF r = Error(400, "to_member_id and positive amount required") THEN "InvalidRequest"
  ELSE IF r = Error(400, "cannot transfer to yourself") THEN "SelfTransfer"
  ELSE IF r = Error(400, "insufficient points") THEN "InsufficientFunds"
  ELSE IF r = Error(404, "recipient not found") THEN "RecipientNotFound"
  ELSE IF r.status = 500 THEN "TransferFailed"
  ELSE IF r.status = 200 /\ "message" \in DOMAIN r THEN "Success"
  ELSE "None"

\* -------------------------------------------------------------------- next

\* The ledger and the transfers on their way to it are fewer than n.
Room(n) == Len(transactions) + Cardinality(InFlight) < n

\* Every route, two goroutines, each ledger row stamped in a tick of its own.
Next ==
  \/ \E p \in Procs, body \in RegPayloads : Register(p, body)
  \/ \E p \in Procs : RegisterCheckMember(p)
  \/ \E p \in Procs : RegisterCreate(p)
  \/ \E p \in Procs, body \in LoginPayloads : Login(p, body)
  \/ \E p \in Procs, tok \in Tokens : Authenticate(p, tok)
  \/ \E p \in Procs, body \in TransferPayloads : Room(MaxTx) /\ TransferRequest(p, body)
  \/ \E p \in Procs, dbOK \in BOOLEAN : TransferLookup(p, dbOK)
  \/ \E p \in Procs : TransferDebit(p)
  \/ \E p \in Procs : TransferCredit(p)
  \/ \E p \in Procs : TransferCreate(p, LastCreatedAt + 1)
  \/ \E p \in Procs : TransferCommit(p)
  \/ \E p \in Procs : TransferFail(p)
  \/ \E p \in Procs : TransferPanic(p)
  \/ \E p \in Procs : Me(p)
  \/ \E p \in Procs : \E rows \in RecentRows(fromUser[p].ID), dbOK \in BOOLEAN :
       RecentTransactions(p, rows, dbOK)
  \/ \E p \in Procs, m \in MemberIDs : SearchUser(p, m)

Spec == Init /\ [][Next]_vars

\* Registrations and transfers only, two goroutines.
NextTransfer ==
  \/ \E p \in Procs, body \in RegPayloads : Register(p, body)
  \/ \E p \in Procs : RegisterCheckMember(p)
  \/ \E p \in Procs : RegisterCreate(p)
  \/ \E p \in Procs, tok \in Tokens : Authenticate(p, tok)
  \/ \E p \in Procs, body \in TransferPayloads : Room(MaxTx) /\ TransferRequest(p, body)
  \/ \E p \in Procs, dbOK \in BOOLEAN : TransferLookup(p, dbOK)
  \/ \E p \in Procs : TransferDebit(p)
  \/ \E p \in Procs : TransferCredit(p)
  \/ \E p \in Procs : TransferCreate(p, LastCreatedAt + 1)
  \/ \E p \in Procs : TransferCommit(p)
  \/ \E p \in Procs : TransferFail(p)
  \/ \E p \in Procs : TransferPanic(p)

SpecTransfer == Init /\ [][NextTransfer]_vars

\* ------------------------------------------------- sequential history runs

\* The two registrations of the history runs.
HistoryRegPayloads ==
  { [Email |-> "a@x", MemberID |-> "LBK1", FirstName |-> "Ann", LastName |-> "A"],
    [Email |-> "b@x", MemberID |-> "LBK2", FirstName |-> "Bob", LastName |-> "B"] }

\* The transfer payloads of the history runs: one point to either member.
HistoryTransferPayloads ==
  [ToMemberID : {"LBK1", "LBK2"}, Amount : {1}, parsed : {TRUE}]

\* The valid tokens of the two members.
HistoryTokens == { [header |-> "ok", sub |-> i] : i \in 1 .. 2 }

\* One goroutine at a time: registrations, transfers of one point in both
\* directions and history reads, up to MaxHistory ledger rows.
NextHistory ==
  \/ \E body \in HistoryRegPayloads : Register(1, body)
  \/ RegisterCheckMember(1)
  \/ RegisterCreate(1)
  \/ \E tok \in HistoryTokens : Authenticate(1, tok)
  \/ \E body \in HistoryTransferPayloads : Room(MaxHistory) /\ TransferRequest(1, body)
  \/ TransferLookup(1, TRUE)
  \/ TransferDebit(1)
  \/ TransferCredit(1)
  \/ TransferCreate(1, LastCreatedAt + 1)
  \/ TransferCommit(1)
  \/ \E rows \in RecentRows(fromUser[1].ID) : RecentTransactions(1, rows, TRUE)

SpecHistory == Init /\ [][NextHistory]_vars

\* One goroutine at a time as in the history runs, up to MaxTx ledger rows,
\* and a ledger row may be stamped in the tick of the row before it.
NextTies ==
  \/ \E body \in HistoryRegPayloads : Register(1, body)
  \/ RegisterCheckMember(1)
  \/ RegisterCreate(1)
  \/ \E tok \in HistoryTokens : Authenticate(1, tok)
  \/ \E body \in HistoryTransferPayloads : Room(MaxTx) /\ TransferRequest(1, body)
  \/ TransferLookup(1, TRUE)
  \/ TransferDebit(1)
  \/ TransferCredit(1)
  \/ \E t \in Clock : TransferCreate(1, t)
  \/ TransferCommit(1)
  \/ \E rows \in RecentRows(fromUser[1].ID) : RecentTransactions(1, rows, TRUE)

SpecTies == Init /\ [][NextTies]_vars

\* ------------------------------------------------------------ properties

\* The ids of the registered accounts.
Accounts == 1 .. Len(users)

\* C1: a transfer of n from A to B (distinct accounts, 1 <= n <= A's balance)
\* that succeeds leaves A's balance at its previous value minus n and B's at
\* its previous value plus n, adds exactly one ledger row A -> B of amount n,
\* and changes no other account.
C1_TransferEffect ==
  [][\A p \in Procs :
       LET a == fromUser[p].ID
           b == toUser[p].ID
           n == payload[p].Amount
       IN (TransferCommit(p) /\ a # b /\ 1 <= n /\ n <= users[a].Points) =>
            /\ users'[a].Points = users[a].Points - n
            /\ users'[b].Points = users[b].Points + n
            /\ Len(transactions') = Len(transactions) + 1
            /\ SubSeq(transactions', 1, Len(transactions)) = transactions
            /\ transactions'[Len(transactions')].FromUserID = a
            /\ transactions'[Len(transactions')].ToUserID = b
            /\ transactions'[Len(transactions')].Amount = n
            /\ \A i \in Accounts \ {a, b} : users'[i] = users[i]]_vars

\* C2: no update is lost: when the ledger holds exactly two transfers, both
\* debits of one account that started with DefaultPoints, the balance of that
\* account is DefaultPoints minus both amounts.
C2_NoLostUpdate ==
  \A a \in Accounts :
    (/\ Len(transactions) = 2
     /\ transactions[1].FromUserID = a
     /\ transactions[2].FromUserID = a) =>
      users[a].Points =
        DefaultPoints - transactions[1].Amount - transactions[2].Amount

\* C3: a transfer leaves its atomic unit in one of three ways only: with
\* success and all three writes (debit, credit, ledger row) committed
\* together; with the TransferFailed answer of the statement that failed, the
\* committed balances and ledger unchanged, its private writes dropped and
\* the write lock released; or by a recovered panic, rolled back the same way.
C3_FailureRollsBack ==
  [][\A p \in Procs :
       (pc[p] \in InUnit /\ pc'[p] # pc[p] /\ pc'[p] \notin InUnit) =>
         /\ pc'[p] = "idle"
         /\ tx'[p] = NoTx
         /\ lock' # p
         /\ \/ /\ Kind(resp') = "Success"
               /\ pc[p] = "recorded"
               /\ Len(tx[p].points) = 2
               /\ Len(tx[p].created) = 1
               /\ users' = ApplyPoints(users, tx[p].points)
               /\ transactions' = transactions \o tx[p].created
            \/ /\ Kind(resp') = "TransferFailed"
               /\ resp' = Error(500, FailureMessage(pc[p]))
               /\ users' = users
               /\ transactions' = transactions
            \/ /\ resp' = [status |-> 200, body |-> ""]
               /\ users' = users
               /\ transactions' = transactions]_vars

\* C3 witness: the ledger insert failed after both balance updates had been
\* staged; nothing of the transfer is left.
C3_Witness ==
  /\ resp = Error(500, "failed to create transaction record")
  /\ lock = 0
  /\ transactions = <<>>
  /\ \A p \in Procs : tx[p] = NoTx
  /\ \A i \in Accounts : users[i].Points = DefaultPoints

\* C4: a transfer whose amount is greater than the sender's balance never
\* commits: at every commit the amount is covered by the sender's committed
\* balance.
C4_InsufficientFunds ==
  [][\A p \in Procs :
       TransferCommit(p) =>
         payload[p].Amount <= users[fromUser[p].ID].Points]_vars

\* C5 (as stated): a well-shaped transfer request (recipient identifier given,
\* amount >= 1) whose recipient identifier matches no account is never
\* answered with a failure other than RecipientNotFound.
C5_Original ==
  [][\A p \in Procs : (pc[p] = "handler" /\ pc'[p] # "handler") =>
       \A body \in TransferPayloads :
       (/\ TransferRequest(p, body)
        /\ body.parsed /\ body.ToMemberID # "" /\ body.Amount >= 1
        /\ FirstByMemberID(body.ToMemberID) = NoUser) =>
         (resp' = NoResp \/ Kind(resp') = "RecipientNotFound")]_vars

\* C5 (amended): a transfer request naming a recipient identifier that matches
\* no account changes no balance and no ledger row, and fails with
\* RecipientNotFound when its amount n satisfies 1 <= n <= the caller's
\* balance as loaded for the request; with n <= 0 it fails with
\* InvalidRequest and with n above that balance with InsufficientFunds.
C5_RecipientNotFound ==
  [][/\ \A p \in Procs : (pc[p] = "handler" /\ pc'[p] # "handler") =>
       \A body \in TransferPayloads :
          (/\ TransferRequest(p, body)
           /\ body.parsed /\ body.ToMemberID # ""
           /\ FirstByMemberID(body.ToMemberID) = NoUser) =>
            /\ users' = users /\ transactions' = transactions /\ tx' = tx
            /\ body.Amount <= 0 => Kind(resp') = "InvalidRequest"
            /\ body.Amount > fromUser[p].Points =>
                 Kind(resp') = "InsufficientFunds"
            /\ (1 <= body.Amount /\ body.Amount <= fromUser[p].Points) =>
                 (resp' = NoResp /\ pc'[p] = "lookup" /\ payload'[p] = body)
     /\ \A p \in Procs :
          (/\ pc[p] = "lookup" /\ pc'[p] # "lookup"
           /\ FirstByMemberID(payload[p].ToMemberID) = NoUser) =>
            /\ Kind(resp') = "RecipientNotFound"
            /\ pc'[p] = "idle"
            /\ users' = users /\ transactions' = transactions /\ tx' = tx
            /\ lock' = lock]_vars

\* C5 witness: a transfer was answered RecipientNotFound with both accounts
\* registered.
C5_Witness ==
  /\ resp = Error(404, "recipient not found")
  /\ Len(users) = 2

\* C6 (as stated): a transfer request whose recipient identifier is the
\* caller's own member identifier is always answered SelfTransfer.
C6_Original ==
  [][\A p \in Procs : (pc[p] = "handler" /\ pc'[p] # "handler") =>
       \A body \in TransferPayloads :
       (/\ TransferRequest(p, body)
        /\ body.parsed
        /\ body.ToMemberID = fromUser[p].MemberID) =>
         Kind(resp') = "SelfTransfer"]_vars

\* C6 (amended): a transfer request of an amount n >= 1 whose recipient
\* identifier is the caller's own member identifier is answered SelfTransfer
\* whatever the caller's balance, and changes no balance and no ledger row.
C6_SelfTransfer ==
  [][\A p \in Procs : (pc[p] = "handler" /\ pc'[p] # "handler") =>
       \A body \in TransferPayloads :
       (/\ TransferRequest(p, body)
        /\ body.parsed
        /\ body.Amount >= 1
        /\ body.ToMemberID = fromUser[p].MemberID) =>
         /\ Kind(resp') = "SelfTransfer"
         /\ pc'[p] = "idle"
         /\ users' = users /\ transactions' = transactions /\ tx' = tx]_vars

\* C6 witness: a transfer was answered SelfTransfer after the ledger had
\* moved points.
C6_Witness ==
  /\ resp = Error(400, "cannot transfer to yourself")
  /\ transactions # <<>>

\* The kind of the first of the preconditions (1) shape, (2) self transfer,
\* (3) funds that request body of caller user violates, "None" when it
\* violates none of them.
FirstViolated(user, body) ==
  IF ~body.parsed \/ body.ToMemberID = "" \/ body.Amount < 1
    THEN "InvalidRequest"
  ELSE IF body.ToMemberID = user.MemberID
    THEN "SelfTransfer"
  ELSE IF user.Points < body.Amount
    THEN "InsufficientFunds"
  ELSE "None"

\* C7: a transfer request is answered with the failure kind of the first
\* precondition it violates in the order (1) InvalidRequest, (2) SelfTransfer,
\* (3) InsufficientFunds, (4) RecipientNotFound; the recipient is looked up
\* only when (1)-(3) hold; the four kinds have pairwise distinct answers.
C7_CheckOrder ==
  [][/\ \A p \in Procs :
          (pc[p] = "handler" /\ pc'[p] # "handler") =>
            /\ \A body \in TransferPayloads :
                 TransferRequest(p, body) =>
                   IF FirstViolated(fromUser[p], body) = "None"
                     THEN resp' = NoResp /\ pc'[p] = "lookup"
                     ELSE /\ Kind(resp') = FirstViolated(fromUser[p], body)
                          /\ pc'[p] = "idle"
            /\ Cardinality(
                 { Error(400, "to_member_id and positive amount required"),
                   Error(400, "cannot transfer to yourself"),
                   Error(400, "insufficient points"),
                   Error(404, "recipient not found") }) = 4
     /\ \A p \in Procs :
          (pc[p] = "lookup" /\ pc'[p] # "lookup") =>
            /\ FirstViolated(fromUser[p], payload[p]) = "None"
            /\ IF FirstByMemberID(payload[p].ToMemberID) = NoUser
                 THEN Kind(resp') = "RecipientNotFound"
                 ELSE resp' = NoResp \/ Kind(resp') = "RecipientNotFound"]_vars

\* C7 witness: a transfer was answered InsufficientFunds.
C7_Witness ==
  resp = Error(400, "insufficient points")

WholeCommit(p) ==
  /\ pc[p] = "recorded"
  /\ Len(tx[p].created) = 1
  /\ Len(tx[p].points) = 2
  /\ tx[p].points[1].ID = tx[p].created[1].FromUserID
  /\ tx[p].points[2].ID = tx[p].created[1].ToUserID
  /\ users' = ApplyPoints(users, tx[p].points)
  /\ transactions' = Append(transactions, tx[p].created[1])

\* A registration adds one account in this step.
NewAccount ==
  /\ transactions' = transactions
  /\ Len(users') = Len(users) + 1
  /\ SubSeq(users', 1, Len(users)) = users

\* C9: the committed balances and ledger, which are all that the read paths
\* read, change only by a whole transfer at its commit (or by a registration):
\* the profile a request is served with is a committed row, every history
\* entry is a committed ledger row touching the caller, and a lookup answers
\* a committed account.
C9_ReadsSeeCommitted ==
  [][/\ (users' # users \/ transactions' # transactions) =>
          (NewAccount \/ \E p \in Procs : WholeCommit(p))
     /\ \A p \in Procs :
          (pc[p] = "idle" /\ pc'[p] = "handler") =>
            \E i \in Accounts : fromUser'[p] = users[i]
     /\ \A p \in Procs :
          (pc[p] = "handler" /\ pc'[p] = "idle" /\ resp'.status = 200) =>
            /\ "points" \in DOMAIN resp' => resp'.points = fromUser[p].Points
            /\ "transactions" \in DOMAIN resp' =>
                 \A i \in DOMAIN resp'.transactions :
                   /\ resp'.transactions[i].id \in 1 .. Len(transactions)
                   /\ fromUser[p].ID \in
                        { transactions[resp'.transactions[i].id].FromUserID,
                          transactions[resp'.transactions[i].id].ToUserID }
            /\ ("points" \notin DOMAIN resp' /\ "member_tier" \in DOMAIN resp') =>
                 \E i \in Accounts : users[i].MemberID = resp'.member_id]_vars

\* C9 witness: a history read was answered with no entry while a transfer
\* between the two accounts had staged its debit, credit and ledger row.
C9_Witness ==
  /\ Len(users) = 2
  /\ "transactions" \in DOMAIN resp
  /\ resp.transactions = <<>>
  /\ \E q \in Procs : pc[q] = "recorded"

\* The ledger row a history entry stands for.
RowOf(e) == transactions[e.id]

\* C10: with k committed transfers touching the caller, the history has
\* min(k, 10) entries of distinct rows touching the caller, newest first, no
\* omitted row newer than a listed one; an entry of a row the caller sent has
\* amount -n, type "sent" and the recipient as counterparty, an entry of a
\* row the caller received has amount +n, type "received" and the sender as
\* counterparty.
C10_History ==
  [][\A p \in Procs :
       (pc[p] = "handler" /\ pc'[p] = "idle" /\ "transactions" \in DOMAIN resp') =>
         LET id == fromUser[p].ID
             h == resp'.transactions
             k == Cardinality(Touching(id))
             listed == { RowOf(h[i]) : i \in DOMAIN h }
         IN /\ Len(h) = IF k < 10 THEN k ELSE 10
            /\ \A i \in DOMAIN h : h[i].id \in 1 .. Len(transactions)
            /\ listed \subseteq Touching(id)
            /\ Cardinality(listed) = Len(h)
            /\ \A i, j \in DOMAIN h :
                 i < j => RowOf(h[i]).CreatedAt >= RowOf(h[j]).CreatedAt
            /\ \A r \in Touching(id) \ listed, s \in listed :
                 r.CreatedAt <= s.CreatedAt
            /\ \A i \in DOMAIN h :
                 IF RowOf(h[i]).FromUserID = id
                   THEN /\ h[i].amount = 0 - RowOf(h[i]).Amount
                        /\ h[i].type = "sent"
                        /\ h[i].contact_member_id =
                             users[RowOf(h[i]).ToUserID].MemberID
                   ELSE /\ h[i].amount = RowOf(h[i]).Amount
                        /\ h[i].type = "received"
                        /\ h[i].contact_member_id =
                             users[RowOf(h[i]).FromUserID].MemberID]_vars

\* C10 witness: eleven transfers touch the caller and the history has ten
\* entries, sent and received.
C10_Witness ==
  /\ Len(transactions) = 11
  /\ "transactions" \in DOMAIN resp
  /\ Len(resp.transactions) = 10
  /\ \E i, j \in DOMAIN resp.transactions :
       /\ resp.transactions[i].type = "sent"
       /\ resp.transactions[j].type = "received"

\* C11: of two entries of a history whose ledger rows have equal creation
\* times, the one with the larger ledger id is listed first.
C11_TieBreak ==
  [][\A p \in Procs :
       (pc[p] = "handler" /\ pc'[p] = "idle" /\ "transactions" \in DOMAIN resp') =>
         \A i, j \in DOMAIN resp'.transactions :
           (/\ i < j
            /\ RowOf(resp'.transactions[i]).CreatedAt =
                 RowOf(resp'.transactions[j]).CreatedAt) =>
             resp'.transactions[i].id > resp'.transactions[j].id]_vars

\* C12: no two accounts share an email or a member identifier, and a
\* registration that ends while an account holds its email or its member
\* identifier is answered with the error naming that field and adds no
\* account.
C12_DuplicateNamed ==
  [][/\ \A i, j \in 1 .. Len(users') :
          i # j => /\ users'[i].Email # users'[j].Email
                   /\ users'[i].MemberID # users'[j].MemberID
     /\ \A p \in Procs :
          (/\ pc[p] \in {"reg_member", "reg_create"}
           /\ pc'[p] = "idle"
           /\ \/ FirstByEmail(payload[p].Email) # NoUser
              \/ FirstByMemberID(payload[p].MemberID) # NoUser) =>
            /\ users' = users
            /\ \/ /\ resp' = Error(400, "email already registered")
                  /\ FirstByEmail(payload[p].Email) # NoUser
               \/ /\ resp' = Error(400, "member_id already registered")
                  /\ FirstByMemberID(payload[p].MemberID) # NoUser]_vars

C14_Frame ==
  [][(users' # users \/ transactions' # transactions) =>
       /\ Len(users') >= Len(users)
       /\ Len(transactions') >= Len(transactions)
       /\ SubSeq(transactions', 1, Len(transactions)) = transactions
       /\ \A i \in Accounts :
            /\ users'[i].ID = users[i].ID
            /\ users'[i].Email = users[i].Email
            /\ users'[i].MemberID = users[i].MemberID
       /\ ((\E i \in Accounts : users'[i].Points # users[i].Points)
             \/ transactions' # transactions) =>
            /\ Kind(resp') = "Success"
            /\ Len(transactions') = Len(transactions) + 1
            /\ \E p \in Procs : pc[p] = "recorded" /\ pc'[p] = "idle"
       /\ Kind(resp') # "Success" =>
            /\ \A i \in Accounts : users'[i] = users[i]
            /\ transactions' = transactions]_vars

\* C14 witness: a login was rejected after a transfer had moved points; the
\* moved points and the ledger row are still there.
C14_Witness ==
  /\ resp = Error(401, "invalid credentials")
  /\ transactions # <<>>
  /\ \E i \in Accounts : users[i].Points # DefaultPoints

\* The ledger rows, committed or staged by an open transaction.
LedgerRows ==
  { transactions[i] : i \in 1 .. Len(transactions) }
    \cup UNION { { tx[p].created[i] : i \in 1 .. Len(tx[p].created) } :
                 p \in Procs }

\* C15: every ledger row has an amount > 0, a sender other than its
\* recipient, type "transfer" and status "completed".
C15_RecordInvariant ==
  \A r \in LedgerRows :
    /\ r.Amount > 0
    /\ r.FromUserID # r.ToUserID
    /\ r.FromUserID \in Accounts
    /\ r.ToUserID \in Accounts
    /\ r.Type = "transfer"
    /\ r.Status = "completed"

\* C15 witness: the ledger holds a transfer in each direction between two
\* accounts.
C15_Witness ==
  \E i, j \in 1 .. Len(transactions) :
    /\ transactions[i].FromUserID = transactions[j].ToUserID
    /\ transactions[i].ToUserID = transactions[j].FromUserID

\* The typed outcomes of a transfer.
TransferOutcomes ==
  {"Success", "InvalidRequest", "SelfTransfer", "InsufficientFunds",
   "RecipientNotFound", "TransferFailed"}

\* C16: every transfer ends in exactly one typed outcome, and a transfer
\* that leaves its transaction without committing, panic recovery included,
\* answers TransferFailed, never success and never an empty response.
C16_TypedOutcome ==
  [][\A p \in Procs :
       /\ (pc[p] = "handler" /\ pc'[p] = "idle") =>
            \A body \in TransferPayloads :
              TransferRequest(p, body) => Kind(resp') \in TransferOutcomes
       /\ (pc[p] \in {"lookup"} \cup InUnit /\ pc'[p] = "idle") =>
            /\ Kind(resp') \in TransferOutcomes
            /\ (pc[p] \in InUnit /\ transactions' = transactions) =>
                 /\ Kind(resp') = "TransferFailed"
                 /\ users' = users]_vars

\* C17: a registration answered 201 adds exactly one account, with 15420
\* points and tier Gold and the identifiers of the request, and changes no
\* account that existed and no ledger row; no other step adds an account.
C17_Registration ==
  [][/\ (\E p \in Procs : pc[p] = "reg_create" /\ pc'[p] = "idle"
                          /\ resp'.status = 201) =>
          /\ Len(users') = Len(users) + 1
          /\ SubSeq(users', 1, Len(users)) = users
          /\ users'[Len(users')].Points = 15420
          /\ users'[Len(users')].MemberTier = "Gold"
          /\ users'[Len(users')].ID = resp'.id
          /\ users'[Len(users')].Email = resp'.email
          /\ users'[Len(users')].MemberID = resp'.member_id
          /\ \A i \in Accounts : users[i].ID # resp'.id
          /\ transactions' = transactions
     /\ Len(users') # Len(users) =>
          /\ resp'.status = 201
          /\ \E p \in Procs : pc[p] = "reg_create" /\ pc'[p] = "idle"]_vars

\* C17 witness: a registration was just answered 201 and the store already
\* held another account.
C17_Witness ==
  /\ resp.status = 201
  /\ Len(users) = 2
  /\ users[1].ID # users[2].ID
  /\ users[2].Points = DefaultPoints

\* C18: a request to a protected route without a header, with a header or
\* token that is not valid, or with a token naming no account is answered
\* 401 before the route's handler runs and changes nothing; a handler runs
\* only for a caller that is an account of the store.
C18_Unauthenticated ==
  [][\A p \in Procs :
       /\ (pc[p] = "idle" /\ (pc'[p] = "handler" \/ resp' # NoResp)) =>
            \A tok \in Tokens :
              Authenticate(p, tok) =>
                /\ users' = users
                /\ transactions' = transactions
                /\ (tok.header # "ok" \/ tok.sub \notin Accounts) =>
                     /\ Kind(resp') = "Unauthenticated"
                     /\ pc'[p] = "idle"
                     /\ fromUser'[p] = NoUser
                /\ pc'[p] = "handler" =>
                     /\ tok.header = "ok"
                     /\ tok.sub \in Accounts
       /\ (pc[p] # "handler" /\ pc'[p] = "handler") =>
            /\ pc[p] = "idle"
            /\ fromUser'[p].ID \in Accounts
            /\ fromUser'[p] = users[fromUser'[p].ID]
       /\ (pc[p] # "idle" /\ pc'[p] # "idle") =>
            fromUser'[p].ID = fromUser[p].ID]_vars

\* C18 witness: a token naming no account was just rejected while the store
\* holds accounts and transfers.
C18_Witness ==
  /\ resp = Error(401, "user not found")
  /\ transactions # <<>>

\* C19: the success response of a transfer carries the sender's balance as
\* the store holds it right after the commit, the amount moved, the id of
\* the new ledger row and the recipient's member id.
C19_SuccessResponse ==
  [][\A p \in Procs :
       (pc[p] = "recorded" /\ TransferCommit(p)) =>
         /\ resp'.remaining_points = users'[fromUser[p].ID].Points
         /\ resp'.transferred_amount = payload[p].Amount
         /\ resp'.transaction_id = transactions'[Len(transactions')].ID
         /\ resp'.recipient = users'[toUser[p].ID].MemberID]_vars

\* The sum of the amounts of the first n ledger rows whose field f is a.
RECURSIVE SumAmounts(_, _, _)
SumAmounts(f, a, n) ==
  IF n = 0 THEN 0
  ELSE SumAmounts(f, a, n - 1)
         + (IF transactions[n][f] = a THEN transactions[n].Amount ELSE 0)

\* C20: the funds check holds against the store at the commit, so that the
\* amounts an account has sent in committed transfers never add up to more
\* than the points it had available: its opening balance plus the amounts
\* it had received before.
C20_FundsAtCommit ==
  \A a \in Accounts :
    \A n \in 1 .. Len(transactions) :
      SumAmounts("FromUserID", a, n)
        <= DefaultPoints + SumAmounts("ToUserID", a, n - 1)

\* The sum of the balances of the first n accounts.
RECURSIVE SumPoints(_)
SumPoints(n) ==
  IF n = 0 THEN 0 ELSE SumPoints(n - 1) + users[n].Points

\* C21: the ledger reconciles with the balances: every account holds 15420
\* plus the amounts of the ledger rows it received minus the amounts of the
\* rows it sent, and so the balances add up to 15420 for each account.
C21_Reconciles ==
  /\ \A a \in Accounts :
       users[a].Points =
         15420 + SumAmounts("ToUserID", a, Len(transactions))
               - SumAmounts("FromUserID", a, Len(transactions))
  /\ SumPoints(Len(users)) = 15420 * Len(users)

====
